---- MODULE Spec2Model ----
(***************************************************************************)
(* Model of src/script.js: the storefront's DOMContentLoaded handler, the  *)
(* cart kept in memory and under the localStorage key 'cart', the cart     *)
(* page's rendering and the click handlers that mutate the cart.           *)
(*                                                                         *)
(* Numbers.  A JavaScript number is modelled as an integer count of units, *)
(* Resolution units to the cent, so that a number can lie between two      *)
(* cents and toFixed(2) has something to round.  A two-decimal string      *)
(* ("29.99") is modelled by its integer number of cents (2999).            *)
(* Product codes, names and image URLs are plain strings without HTML      *)
(* metacharacters, as the catalogue's bar codes are.                       *)
(***************************************************************************)
EXTENDS Integers, Sequences, FiniteSets, TLC

VARIABLES
    storage,            \* the value stored under the key 'cart'
    page,               \* the page whose DOMContentLoaded handler ran last
    threw,              \* the DOMContentLoaded handler raised an exception
    cart,               \* let cart (line 9)
    cartCountSpan,      \* whether #cart-item-count exists on the page
    cartCount,          \* cartCountSpan.textContent
    fetchState,         \* the catalogue fetch of the page
    cartRows,           \* the rows of #cart-items-container
    cartTotalSubtotal,  \* #cart-total-subtotal textContent
    cartTotal,          \* #cart-total textContent
    emptyCartMessage,   \* #empty-cart-message style.display
    checkoutDisabled,   \* .btn-checkout disabled
    message,            \* the last showMessage notification
    requests,           \* fetch requests the page has issued
    response,           \* what the request settled with, once it has
    grid,               \* the product cards of the page's grid
    gridMessage,        \* the message shown in the grid instead of cards
    spinner,            \* #loading-spinner-container style.display
    form,               \* the contact form: fields, error texts, success
    other,              \* the state of a second document on the same store
    lastOp              \* history: the handler that ran last and its event

vars == <<storage, page, threw, cart, cartCountSpan, cartCount, fetchState,
          cartRows, cartTotalSubtotal, cartTotal, emptyCartMessage,
          checkoutDisabled, message, requests, response, grid, gridMessage,
          spinner, form, other, lastOp>>

cartView == <<cartRows, cartTotalSubtotal, cartTotal, emptyCartMessage,
              checkoutDisabled>>

catalogView == <<requests, response, grid, gridMessage, spinner>>

----
\* Bounds of the model.

\* Units of a modelled number per cent.
Resolution == 100

\* add and increase are cut off at this quantity.
MaxQty == 3

\* Product codes (data-id) that a product card can carry, and the names
\* and images the catalogue gives a product from one fetch to the next.
Ids == {"3017", "5449"}
Labels == {[name |-> "Oat Bar", image |-> "a.jpg"],
           [name |-> "Rice Cake", image |-> "b.jpg"]}

\* Candidate prices in cents, among them those of the subtotal example.
SamplePrices == {333, 1000}

\* The longest products list of a catalogue response.
MaxResponse == 22

\* The longest email typed.
MaxEmailLen == 5

\* The characters typed into the email field, the texts pasted into it
\* (white space around an address, inside it, and alone), and the values
\* given to the name and message fields.
EmailChars == {"a", "@", "."}
PastedEmails ==
    {<<" ", "a", "@", "a", ".", "a", " ">>,
     <<"a", " ", "a", "@", "a", ".", "a">>,
     <<"a", "@", "a", " ", ".", "a">>,
     <<" ", " ">>}
TextSamples == {<<>>, <<" ">>, <<"a">>}

----
\* Program constants.

\* getRandomPrice: const min = 1.99, const max = 29.99 (in cents).
min == 199
max == 2999

\* renderCart: const SHIPPING_COST = 5.00 (in cents).
SHIPPING_CENTS == 500
SHIPPING_COST == SHIPPING_CENTS * Resolution

\* fetchFeaturedProducts: products.slice(0, 4).
FEATURED_SHOWN == 4

\* fetchAllProducts: products.slice(0, Math.min(products.length, 20)).
ALL_SHOWN == 20

Pages == {"home", "products", "cart", "contact"}

\* e.target.dataset.id of an element that carries no data-id.
Undefined == "undefined-value"

\* An element's textContent: never written, or written with a text.
NoText == <<>>
Text(t) == <<t>>

----
\* Number <-> string conversions.

\* parseFloat of a two-decimal string.
parseFloat(cents) == cents * Resolution

\* Number.prototype.toFixed(2) of a non-negative number: the nearest
\* two-decimal string.
toFixed2(x) == (x + (Resolution \div 2)) \div Resolution

\* getRandomPrice: the strings it can return (a sample of the range).
getRandomPrice == {p \in SamplePrices : min <= p /\ p <= max}

----
\* Persistence: JSON.stringify / JSON.parse / localStorage.

StoredAbsent == [kind |-> "absent", items |-> <<>>]
StoredUnparseable == [kind |-> "unparseable", items |-> <<>>]
StoredFalsy == [kind |-> "falsy", items |-> <<>>]
StoredObject == [kind |-> "object", items |-> <<>>]

\* The JSON text of one line item: its members in key order.
JSONstringifyItem(item) ==
    <<item.id, item.name, item.price, item.image, item.quantity>>

\* JSON.stringify(cart): the JSON text of an array of line items.
JSONstringify(c) ==
    [kind |-> "array",
     items |-> [i \in 1..Len(c) |-> JSONstringifyItem(c[i])]]

\* Mutant: the members read back in the wrong order.
JSONparseItem_NameImageSwapped(t) ==
    [id |-> t[1], name |-> t[4], price |-> t[3], image |-> t[2],
     quantity |-> t[5]]

JSONparseItem(t) ==
    [id |-> t[1], name |-> t[2], price |-> t[3], image |-> t[4],
     quantity |-> t[5]]

\* JSON.parse(localStorage.getItem('cart')): whether it throws, and the
\* value: null for an absent key, else what the text denotes.
JSONparse(st) ==
    [throws |-> st.kind = "unparseable",
     kind |-> IF st.kind = "absent" THEN "falsy" ELSE st.kind,
     value |-> [i \in 1..Len(st.items) |-> JSONparseItem(st.items[i])]]

\* line 9: JSON.parse(...) || [] ; an array is truthy even when empty.
LoadedCart(st) ==
    IF JSONparse(st).kind = "array" THEN JSONparse(st).value ELSE <<>>

\* line 9 leaves cart a list: it neither threw nor produced a non-array.
LoadsList(st) ==
    /\ ~JSONparse(st).throws
    /\ JSONparse(st).kind \in {"falsy", "array"}

----
\* Cart engine.

RECURSIVE SumQuantity(_)
SumQuantity(c) ==
    IF c = <<>> THEN 0 ELSE Head(c).quantity + SumQuantity(Tail(c))

\* Mutant: the number of line items instead of the sum of quantities.
updateCartCount_Length(c, span, old) ==
    IF span THEN Text(Len(c)) ELSE old

\* updateCartCount: the text written to the span, if the span exists.
updateCartCount(c, span, old) ==
    IF span THEN Text(SumQuantity(c)) ELSE old

\* cart.findIndex(item => item.id === productId): -1 when none (indices
\* are those of the TLA+ sequence, from 1).
findIndex(c, productId) ==
    IF \E i \in 1..Len(c) : c[i].id = productId
    THEN CHOOSE i \in 1..Len(c) :
            /\ c[i].id = productId
            /\ \A j \in 1..(i - 1) : c[j].id # productId
    ELSE -1

\* cart.filter(item => item.id !== id)
FilterOut(c, id) == SelectSeq(c, LAMBDA item : item.id # id)

\* Mutant: no lookup, every add pushes a new line item.
addToCart_AlwaysPush(c, productId, name, price, image) ==
    Append(c, [id |-> productId, name |-> name,
               price |-> parseFloat(price), image |-> image,
               quantity |-> 1])

\* Mutant: the found index is dropped, the first line item is incremented.
addToCart_FirstItem(c, productId, name, price, image) ==
    IF findIndex(c, productId) > -1
    THEN [c EXCEPT ![1].quantity = @ + 1]
    ELSE Append(c, [id |-> productId, name |-> name,
                    price |-> parseFloat(price), image |-> image,
                    quantity |-> 1])

\* Mutant: an item added again is moved to the end of the cart.
addToCart_MoveToEnd(c, productId, name, price, image) ==
    LET i == findIndex(c, productId) IN
    IF i > -1
    THEN Append(FilterOut(c, productId), [c[i] EXCEPT !.quantity = @ + 1])
    ELSE Append(c, [id |-> productId, name |-> name,
                    price |-> parseFloat(price), image |-> image,
                    quantity |-> 1])

\* Mutant: an item added again takes the name, price and image of the
\* card clicked last.
addToCart_Overwrite(c, productId, name, price, image) ==
    LET i == findIndex(c, productId) IN
    IF i > -1
    THEN [c EXCEPT ![i] = [id |-> productId, name |-> name,
                           price |-> parseFloat(price), image |-> image,
                           quantity |-> c[i].quantity + 1]]
    ELSE Append(c, [id |-> productId, name |-> name,
                    price |-> parseFloat(price), image |-> image,
                    quantity |-> 1])

\* addToCart lines 86-94: the cart after the call.
addToCart(c, productId, name, price, image) ==
    LET existingItemIndex == findIndex(c, productId) IN
    IF existingItemIndex > -1
    THEN [c EXCEPT ![existingItemIndex].quantity = @ + 1]
    ELSE Append(c, [id |-> productId, name |-> name,
                    price |-> parseFloat(price), image |-> image,
                    quantity |-> 1])

\* Mutant: decrease without the quantity > 1 test.
quantityClick_NoRemoval(c, idToUpdate, cls) ==
    LET i == findIndex(c, idToUpdate) IN
    IF i = -1 THEN c
    ELSE IF cls = "increase" THEN [c EXCEPT ![i].quantity = @ + 1]
    ELSE [c EXCEPT ![i].quantity = @ - 1]

\* Mutant: increase raises every line item, not the one found.
quantityClick_IncreaseAll(c, idToUpdate, cls) ==
    LET i == findIndex(c, idToUpdate) IN
    IF i = -1 THEN c
    ELSE IF cls = "increase"
         THEN [k \in 1..Len(c) |-> [c[k] EXCEPT !.quantity = @ + 1]]
    ELSE IF c[i].quantity > 1
         THEN [c EXCEPT ![i].quantity = @ - 1]
         ELSE FilterOut(c, idToUpdate)

\* The quantity-button handler, lines 318-330: the cart after the click.
quantityClick(c, idToUpdate, cls) ==
    LET i == findIndex(c, idToUpdate) IN
    IF i = -1 THEN c
    ELSE IF cls = "increase" THEN [c EXCEPT ![i].quantity = @ + 1]
    ELSE IF cls = "decrease"
         THEN IF c[i].quantity > 1
              THEN [c EXCEPT ![i].quantity = @ - 1]
              ELSE FilterOut(c, idToUpdate)
    ELSE c

\* The remove-button handler, lines 309-310: e.target is the button, or
\* the <i> icon inside it, which has no data-id.
removeClick(c, rowId, target) ==
    LET idToRemove == IF target = "button" THEN rowId ELSE Undefined IN
    FilterOut(c, idToRemove)

----
\* Catalogue fetcher.  A response is what the one request of a page settles
\* with: the fetch rejected, a status that is not ok, a body that is not
\* JSON, JSON without a products array, or a products array.  A product
\* record carries its code and three optional texts, "" when missing.

NoResponse == [kind |-> "none", products |-> <<>>]
FailedResponses ==
    {[kind |-> k, products |-> <<>>] :
        k \in {"rejected", "status", "undecodable", "noproducts"}}
ProductsResponse(products) == [kind |-> "products", products |-> products]

\* A JavaScript string used as a condition.
Truthy(v) == v # ""

\* products.slice(0, n)
slice(products, n) ==
    SubSeq(products, 1, IF Len(products) < n THEN Len(products) ELSE n)

\* Mutant: the featured listing filtered like the general one.
featuredFilter_BrandOptional(products) ==
    SelectSeq(products, LAMBDA p : Truthy(p.product_name)
                                   /\ Truthy(p.image_url))

\* line 153: the filter of the featured listing.
featuredFilter(products) ==
    SelectSeq(products, LAMBDA p : Truthy(p.product_name)
                                   /\ Truthy(p.image_url) /\ Truthy(p.brands))

\* line 218: the filter of the general listing.
allFilter(products) ==
    SelectSeq(products, LAMBDA p : Truthy(p.product_name)
                                   /\ Truthy(p.image_url))

\* createProductCard, lines 48-76: the dataset of the card's button (the
\* price is drawn when the button is clicked).
createProductCard(product) ==
    [id |-> product.code,
     name |-> IF Truthy(product.product_name) THEN product.product_name
              ELSE "Unknown Product",
     image |-> IF Truthy(product.image_url) THEN product.image_url
               ELSE "placeholder"]

Cards(products) == [i \in 1..Len(products) |-> createProductCard(products[i])]

\* fetchFeaturedProducts, lines 145-177, from the response on: what the
\* grid shows.
fetchFeaturedProducts(resp) ==
    IF resp.kind # "products"
    THEN [state |-> "failed", grid |-> <<>>, gridMessage |-> "failed"]
    ELSE LET products == featuredFilter(resp.products) IN
         IF Len(products) = 0
         THEN [state |-> "empty", grid |-> <<>>, gridMessage |-> "none found"]
         ELSE [state |-> "cards",
               grid |-> Cards(slice(products, FEATURED_SHOWN)),
               gridMessage |-> ""]

\* Mutant: an empty listing reported as a failure to load.
fetchAllProducts_EmptyAsFailure(resp) ==
    LET productsToDisplay == slice(allFilter(resp.products), ALL_SHOWN) IN
    IF resp.kind # "products" \/ Len(productsToDisplay) = 0
    THEN [state |-> "failed", grid |-> <<>>, gridMessage |-> "failed"]
    ELSE [state |-> "cards", grid |-> Cards(productsToDisplay),
          gridMessage |-> ""]

\* fetchAllProducts, lines 209-244, from the response on.
fetchAllProducts(resp) ==
    IF resp.kind # "products"
    THEN [state |-> "failed", grid |-> <<>>, gridMessage |-> "failed"]
    ELSE LET productsToDisplay == slice(allFilter(resp.products), ALL_SHOWN) IN
         IF Len(productsToDisplay) = 0
         THEN [state |-> "empty", grid |-> <<>>, gridMessage |-> "none found"]
         ELSE [state |-> "cards", grid |-> Cards(productsToDisplay),
               gridMessage |-> ""]

\* toggleLoadingSpinner(show), lines 191-201.
toggleLoadingSpinner(show) == IF show THEN "flex" ELSE "none"

----
\* Renderer of the cart page.

\* One rendered .cart-item: the data-id of its controls and its texts.
CartRow(item) ==
    [id |-> item.id, name |-> item.name, image |-> item.image,
     price |-> toFixed2(item.price), quantity |-> item.quantity,
     itemTotalPrice |-> toFixed2(item.price * item.quantity)]

RECURSIVE Subtotal_UnitPrices(_)
\* Mutant: the quantity is left out of the item total.
Subtotal_UnitPrices(c) ==
    IF c = <<>> THEN 0
    ELSE Subtotal_UnitPrices(SubSeq(c, 1, Len(c) - 1))
         + parseFloat(toFixed2(c[Len(c)].price))

\* lines 277-282: subtotal += parseFloat(itemTotalPrice), item by item.
RECURSIVE Subtotal(_)
Subtotal(c) ==
    IF c = <<>> THEN 0
    ELSE Subtotal(SubSeq(c, 1, Len(c) - 1))
         + parseFloat(toFixed2(c[Len(c)].price * c[Len(c)].quantity))

\* The cart page before renderCart has written anything.
BlankView ==
    [rows |-> <<>>, subtotal |-> NoText, total |-> NoText,
     emptyMsg |-> "", disabled |-> FALSE]

\* renderCart with cart not a list: cart.length is undefined, so the else
\* branch of line 266 runs, and cart.forEach raises.
RenderNonList ==
    [rows |-> <<>>, subtotal |-> NoText, total |-> NoText,
     emptyMsg |-> "none", disabled |-> FALSE]

\* Mutant: no early return for the empty cart, shipping always charged.
renderCart_ShippingOnEmpty(c) ==
    [rows |-> [i \in 1..Len(c) |-> CartRow(c[i])],
     subtotal |-> Text(toFixed2(Subtotal(c))),
     total |-> Text(toFixed2(Subtotal(c) + SHIPPING_COST)),
     emptyMsg |-> IF Len(c) = 0 THEN "block" ELSE "none",
     disabled |-> Len(c) = 0]

\* Mutant: the empty branch forgets to disable the checkout button.
renderCart_CheckoutStaysEnabled(c) ==
    IF Len(c) = 0
    THEN [rows |-> <<>>, subtotal |-> Text(0), total |-> Text(0),
          emptyMsg |-> "block", disabled |-> FALSE]
    ELSE [rows |-> [i \in 1..Len(c) |-> CartRow(c[i])],
          subtotal |-> Text(toFixed2(Subtotal(c))),
          total |-> Text(toFixed2(Subtotal(c) + SHIPPING_COST)),
          emptyMsg |-> "none", disabled |-> FALSE]

\* renderCart, lines 262-304: what the page shows for cart c.
renderCart(c) ==
    IF Len(c) = 0
    THEN [rows |-> <<>>, subtotal |-> Text(0), total |-> Text(0),
          emptyMsg |-> "block", disabled |-> TRUE]
    ELSE [rows |-> [i \in 1..Len(c) |-> CartRow(c[i])],
          subtotal |-> Text(toFixed2(Subtotal(c))),
          total |-> Text(toFixed2(Subtotal(c) + SHIPPING_COST)),
          emptyMsg |-> "none", disabled |-> FALSE]

Show(v) ==
    /\ cartRows' = v.rows
    /\ cartTotalSubtotal' = v.subtotal
    /\ cartTotal' = v.total
    /\ emptyCartMessage' = v.emptyMsg
    /\ checkoutDisabled' = v.disabled

\* Mutant: the count is refreshed but the cart is not written.
saveCart_NoWrite(c) ==
    /\ storage' = storage
    /\ cartCount' = updateCartCount(c, cartCountSpan, cartCount)

\* saveCart, lines 27-30: setItem then updateCartCount.
saveCart(c) ==
    /\ storage' = JSONstringify(c)
    /\ cartCount' = updateCartCount(c, cartCountSpan, cartCount)

NoMessage == [type |-> "none", text |-> ""]
Op(name, id, target) == [name |-> name, id |-> id, target |-> target]

----
\* The contact form, lines 356-433.  A field value is a sequence of
\* one-character strings.

\* The form as the page delivers it: empty fields, empty error spans, the
\* success box as styled by the page; listening tells whether lines
\* 406-432 attached the listeners, isValid what validateForm returned last.
BlankForm(listening) ==
    [listening |-> listening,
     name |-> <<>>, email |-> <<>>, message |-> <<>>,
     nameError |-> "", emailError |-> "", messageError |-> "",
     success |-> "", isValid |-> FALSE]

\* The document that is not open.
NoSession ==
    [page |-> "none", threw |-> FALSE, cart |-> <<>>,
     cartCountSpan |-> FALSE, cartCount |-> NoText, fetchState |-> "none",
     cartRows |-> <<>>, cartTotalSubtotal |-> NoText, cartTotal |-> NoText,
     emptyCartMessage |-> "", checkoutDisabled |-> FALSE,
     message |-> NoMessage, requests |-> 0, response |-> NoResponse,
     grid |-> <<>>, gridMessage |-> "", spinner |-> "absent",
     form |-> BlankForm(FALSE)]

\* \s of the pattern and of trim, among the characters typed here.
IsSpace(ch) == ch = " "

\* String.prototype.trim
RECURSIVE trimStart(_)
trimStart(s) ==
    IF s # <<>> /\ IsSpace(Head(s)) THEN trimStart(Tail(s)) ELSE s

RECURSIVE trimEnd(_)
trimEnd(s) ==
    IF s # <<>> /\ IsSpace(s[Len(s)])
    THEN trimEnd(SubSeq(s, 1, Len(s) - 1)) ELSE s

trim(s) == trimEnd(trimStart(s))

\* One or more characters of the class [^\s@], the whole of s.
ClassRun(s) ==
    /\ s # <<>>
    /\ \A i \in 1..Len(s) : ~IsSpace(s[i]) /\ s[i] # "@"

\* Mutant: nothing is required after the dot.
emailPatternTest_NothingAfterDot(s) ==
    \E i \in 1..Len(s), j \in 1..Len(s) :
        /\ i < j
        /\ ClassRun(SubSeq(s, 1, i - 1))
        /\ s[i] = "@"
        /\ ClassRun(SubSeq(s, i + 1, j - 1))
        /\ s[j] = "."
        /\ j = Len(s) \/ ClassRun(SubSeq(s, j + 1, Len(s)))

\* emailPattern.test(s), line 383: /^[^\s@]+@[^\s@]+\.[^\s@]+$/ matches
\* when s splits into a class run, "@", a class run, ".", a class run.
emailPatternTest(s) ==
    \E i \in 1..Len(s), j \in 1..Len(s) :
        /\ i < j
        /\ ClassRun(SubSeq(s, 1, i - 1))
        /\ s[i] = "@"
        /\ ClassRun(SubSeq(s, i + 1, j - 1))
        /\ s[j] = "."
        /\ ClassRun(SubSeq(s, j + 1, Len(s)))

\* validateForm, lines 371-403, on form f: the error texts it writes and
\* the value it returns.
validateForm(f) ==
    LET nameOk == trim(f.name) # <<>>
        emailGiven == trim(f.email) # <<>>
        emailOk == emailGiven /\ emailPatternTest(trim(f.email))
        messageOk == trim(f.message) # <<>>
    IN  [f EXCEPT
            !.nameError = IF nameOk THEN "" ELSE "Name is required.",
            !.emailError =
                IF ~emailGiven THEN "Email is required."
                ELSE IF ~emailOk THEN "Please enter a valid email address."
                ELSE "",
            !.messageError = IF messageOk THEN "" ELSE "Message is required.",
            !.isValid = nameOk /\ emailOk /\ messageOk]

\* contactForm.reset(), line 419: the fields go back to their defaults.
reset(f) == [f EXCEPT !.name = <<>>, !.email = <<>>, !.message = <<>>]

----
\* Handlers.  Each runs to completion before the next is dispatched.

\* The DOMContentLoaded handler, lines 1-437, on page p.
PageLoad(p, span) ==
    LET parsed == JSONparse(storage)
        ok == LoadsList(storage)
        c == LoadedCart(storage)
    IN  /\ page' = p
        /\ cartCountSpan' = span
        /\ threw' = ~ok
        /\ cart' = IF ok THEN c ELSE <<>>
        /\ fetchState' = IF ~parsed.throws /\ p \in {"home", "products"}
                         THEN "pending" ELSE "none"
        /\ requests' = IF ~parsed.throws /\ p \in {"home", "products"}
                       THEN 1 ELSE 0
        /\ response' = NoResponse
        /\ grid' = <<>>
        /\ gridMessage' = ""
        /\ spinner' = IF ~parsed.throws /\ p = "products"
                      THEN toggleLoadingSpinner(TRUE) ELSE "absent"
        /\ Show(IF p # "cart" \/ parsed.throws THEN BlankView
                ELSE IF ok THEN renderCart(c) ELSE RenderNonList)
        /\ cartCount' = IF ok THEN updateCartCount(c, span, NoText) ELSE NoText
        /\ message' = NoMessage
        /\ form' = BlankForm(p = "contact" /\ ~parsed.throws)
        /\ lastOp' = Op("load", "", "")
        /\ UNCHANGED <<storage, other>>

\* Mutant: the spinner hidden at the end of the try block, not in finally.
FetchSettle_NoFinally(resp) ==
    /\ fetchState = "pending"
    /\ LET shown == IF page = "home" THEN fetchFeaturedProducts(resp)
                    ELSE fetchAllProducts(resp)
       IN  /\ fetchState' = shown.state
           /\ grid' = shown.grid
           /\ gridMessage' = shown.gridMessage
           /\ spinner' = IF page = "products" /\ shown.state # "failed"
                         THEN toggleLoadingSpinner(FALSE) ELSE spinner
    /\ response' = resp
    /\ lastOp' = Op("fetch", "", "")
    /\ UNCHANGED <<storage, page, threw, cart, cartCountSpan, cartCount,
                   cartView, message, requests, form, other>>

\* The request of the page settles with resp and the rest of
\* fetchFeaturedProducts (home) or fetchAllProducts (products) runs.
FetchSettle(resp) ==
    /\ fetchState = "pending"
    /\ LET shown == IF page = "home" THEN fetchFeaturedProducts(resp)
                    ELSE fetchAllProducts(resp)
       IN  /\ fetchState' = shown.state
           /\ grid' = shown.grid
           /\ gridMessage' = shown.gridMessage
    /\ response' = resp
    /\ spinner' = IF page = "products" THEN toggleLoadingSpinner(FALSE)
                  ELSE spinner
    /\ lastOp' = Op("fetch", "", "")
    /\ UNCHANGED <<storage, page, threw, cart, cartCountSpan, cartCount,
                   cartView, message, requests, form, other>>

\* Click on a card's Add to Cart button, lines 168-171 / 235-238, whose
\* dataset is (id, name, price, image); addToCart, lines 85-98.
AddToCartClick(id, name, price, image) ==
    /\ page \in {"home", "products"}
    /\ fetchState = "cards"
    /\ ~threw
    /\ \A i \in 1..Len(cart) : cart[i].id = id => cart[i].quantity < MaxQty
    /\ cart' = addToCart(cart, id, name, price, image)
    /\ saveCart(cart')
    /\ message' = [type |-> "success", text |-> name]
    /\ lastOp' = Op("add", id, "button")
    /\ UNCHANGED <<page, threw, cartCountSpan, fetchState, cartView,
                   catalogView, form, other>>

\* Click on the remove control of rendered row r, lines 308-313.
RemoveClick(r, target) ==
    /\ page = "cart"
    /\ ~threw
    /\ r \in 1..Len(cartRows)
    /\ cart' = removeClick(cart, cartRows[r].id, target)
    /\ saveCart(cart')
    /\ Show(renderCart(cart'))
    /\ lastOp' = Op("remove", cartRows[r].id, target)
    /\ UNCHANGED <<page, threw, cartCountSpan, fetchState, message,
                   catalogView, form, other>>

\* The rest of the document's state, which the form handlers leave alone.
shop == <<storage, page, threw, cart, cartCountSpan, cartCount, fetchState,
          cartView, message, catalogView>>

\* An input event on a tracked field whose value has become value,
\* lines 430-432: validateForm runs.
InputEvent(field, value) ==
    /\ form.listening
    /\ form' = validateForm([form EXCEPT ![field] = value])
    /\ lastOp' = Op("input", "", "")
    /\ UNCHANGED <<shop, other>>

\* The submit handler, lines 406-427.
Submit ==
    /\ form.listening
    /\ LET checked == validateForm(form)
       IN  form' = IF checked.isValid
                   THEN [reset(checked) EXCEPT !.success = "block"]
                   ELSE checked
    /\ lastOp' = Op("submit", "", "")
    /\ UNCHANGED <<shop, other>>

\* A timeout of line 422 fires, 5 seconds after a passing submission.
\* While the box shows, the timeout of the last passing submission is
\* pending; one that fires with the box hidden changes nothing.
SuccessTimeout ==
    /\ form.success = "block"
    /\ form' = [form EXCEPT !.success = "none"]
    /\ lastOp' = Op("timeout", "", "")
    /\ UNCHANGED <<shop, other>>

\* The browser turns to the other document on the same store: its state
\* comes to the fore and this document's is kept aside.  Each document
\* has its own cart (line 9) and elements; localStorage alone is shared.
Session ==
    [page |-> page, threw |-> threw, cart |-> cart,
     cartCountSpan |-> cartCountSpan, cartCount |-> cartCount,
     fetchState |-> fetchState, cartRows |-> cartRows,
     cartTotalSubtotal |-> cartTotalSubtotal, cartTotal |-> cartTotal,
     emptyCartMessage |-> emptyCartMessage,
     checkoutDisabled |-> checkoutDisabled, message |-> message,
     requests |-> requests, response |-> response, grid |-> grid,
     gridMessage |-> gridMessage, spinner |-> spinner, form |-> form]

Switch ==
    /\ other' = Session
    /\ page' = other.page
    /\ threw' = other.threw
    /\ cart' = other.cart
    /\ cartCountSpan' = other.cartCountSpan
    /\ cartCount' = other.cartCount
    /\ fetchState' = other.fetchState
    /\ cartRows' = other.cartRows
    /\ cartTotalSubtotal' = other.cartTotalSubtotal
    /\ cartTotal' = other.cartTotal
    /\ emptyCartMessage' = other.emptyCartMessage
    /\ checkoutDisabled' = other.checkoutDisabled
    /\ message' = other.message
    /\ requests' = other.requests
    /\ response' = other.response
    /\ grid' = other.grid
    /\ gridMessage' = other.gridMessage
    /\ spinner' = other.spinner
    /\ form' = other.form
    /\ lastOp' = Op("switch", "", "")
    /\ UNCHANGED storage

\* The quantity-button handler, lines 317-334, run for a click whose
\* e.target.dataset.id is idToUpdate.
QuantityHandler(idToUpdate, cls) ==
    /\ page = "cart"
    /\ ~threw
    /\ LET found == findIndex(cart, idToUpdate) > -1
       IN  /\ cls = "increase" =>
                \A i \in 1..Len(cart) :
                    cart[i].id = idToUpdate => cart[i].quantity < MaxQty
           /\ cart' = quantityClick(cart, idToUpdate, cls)
           /\ IF found
              THEN saveCart(cart') /\ Show(renderCart(cart'))
              ELSE UNCHANGED <<storage, cartCount, cartView>>
           /\ lastOp' = Op(cls, idToUpdate, "button")
    /\ UNCHANGED <<page, threw, cartCountSpan, fetchState, message,
                   catalogView, form, other>>

\* Click on the - or + button of rendered row r, lines 317-334.
QuantityClick(r, cls) ==
    /\ r \in 1..Len(cartRows)
    /\ QuantityHandler(cartRows[r].id, cls)

\* The same handler run for a - or + button whose data-id is any product
\* code, carried by a line item or not (a row edited in the page).
QuantityDispatch(id, cls) == QuantityHandler(id, cls)

\* Mutant: the cart is cleared and redrawn but not saved.
CheckoutClick_NoSave ==
    /\ page = "cart"
    /\ ~threw
    /\ IF Len(cart) > 0
       THEN /\ message' = [type |-> "success", text |-> "Checkout successful"]
            /\ cart' = <<>>
            /\ Show(renderCart(cart'))
            /\ UNCHANGED <<storage, cartCount>>
       ELSE /\ message' = [type |-> "error", text |-> "Your cart is empty"]
            /\ UNCHANGED <<cart, storage, cartCount, cartView>>
    /\ lastOp' = Op("checkout", "", "")
    /\ UNCHANGED <<page, threw, cartCountSpan, fetchState, catalogView,
                   form, other>>

\* Click on Proceed to Checkout, lines 341-352.
CheckoutClick ==
    /\ page = "cart"
    /\ ~threw
    /\ IF Len(cart) > 0
       THEN /\ message' = [type |-> "success", text |-> "Checkout successful"]
            /\ cart' = <<>>
            /\ saveCart(cart')
            /\ Show(renderCart(cart'))
       ELSE /\ message' = [type |-> "error", text |-> "Your cart is empty"]
            /\ UNCHANGED <<cart, storage, cartCount, cartView>>
    /\ lastOp' = Op("checkout", "", "")
    /\ UNCHANGED <<page, threw, cartCountSpan, fetchState, catalogView,
                   form, other>>

----
\* Specifications.

Blank ==
    /\ page = "none"
    /\ threw = FALSE
    /\ cart = <<>>
    /\ cartCountSpan = FALSE
    /\ cartCount = NoText
    /\ fetchState = "none"
    /\ cartRows = <<>>
    /\ cartTotalSubtotal = NoText
    /\ cartTotal = NoText
    /\ emptyCartMessage = ""
    /\ checkoutDisabled = FALSE
    /\ message = NoMessage
    /\ requests = 0
    /\ response = NoResponse
    /\ grid = <<>>
    /\ gridMessage = ""
    /\ spinner = "absent"
    /\ form = BlankForm(FALSE)
    /\ other = NoSession
    /\ lastOp = Op("none", "", "")

\* A browser whose store holds no cart yet.
Init == storage = StoredAbsent /\ Blank

\* A browser whose store holds anything under the key.
StoredValues ==
    {StoredAbsent, StoredUnparseable, StoredFalsy, StoredObject,
     JSONstringify(<<>>)}

InitStored == storage \in StoredValues /\ Blank

\* A catalogue record with every text present.
Product(code, label) ==
    [code |-> code, product_name |-> label.name, image_url |-> label.image,
     brands |-> "Brand"]

\* The responses of the cart specifications: the failures, no products, and
\* the products of Ids under each of their labels.
ShopResponses ==
    FailedResponses \cup {ProductsResponse(<<>>)}
    \cup {ProductsResponse([i \in 1..Len(codes) |-> Product(codes[i], label)]) :
            codes \in {<<"3017", "5449">>, <<"5449", "3017">>},
            label \in Labels}

Next ==
    \/ \E p \in Pages, span \in BOOLEAN : PageLoad(p, span)
    \/ \E resp \in ShopResponses : FetchSettle(resp)
    \/ \E k \in 1..Len(grid), price \in getRandomPrice :
          AddToCartClick(grid[k].id, grid[k].name, price, grid[k].image)
    \/ \E r \in 1..Len(cartRows), target \in {"button", "icon"} :
          RemoveClick(r, target)
    \/ \E r \in 1..Len(cartRows), cls \in {"increase", "decrease"} :
          QuantityClick(r, cls)
    \/ CheckoutClick

Spec == Init /\ [][Next]_vars

SpecStored == InitStored /\ [][Next]_vars

\* The cart handlers with the quantity handler run for any data-id.
NextHandlers ==
    \/ Next
    \/ \E id \in Ids, cls \in {"increase", "decrease"} :
          QuantityDispatch(id, cls)

SpecHandlers == Init /\ [][NextHandlers]_vars

----
\* The catalogue pages on their own, over a family of responses.

\* Which texts a record carries: all, no brand, no image, no name.
RecordKinds ==
    {[name |-> TRUE, image |-> TRUE, brand |-> TRUE],
     [name |-> TRUE, image |-> TRUE, brand |-> FALSE],
     [name |-> TRUE, image |-> FALSE, brand |-> TRUE],
     [name |-> FALSE, image |-> TRUE, brand |-> TRUE]}

\* The i-th record of a response, of the given kind.
Record(i, kind) ==
    [code |-> ToString(i),
     product_name |-> IF kind.name THEN "Name" ELSE "",
     image_url |-> IF kind.image THEN "image.jpg" ELSE "",
     brands |-> IF kind.brand THEN "Brand" ELSE ""]

\* n records: a of kind k1, then kinds k2 and k3 in turn.
ProductList(n, a, k1, k2, k3) ==
    [i \in 1..n |->
        Record(i, IF i <= a THEN k1
                  ELSE IF (i - a) % 2 = 1 THEN k2 ELSE k3)]

CatalogResponses ==
    FailedResponses
    \cup {ProductsResponse(ProductList(n, a, k1, k2, k3)) :
            n \in 0..MaxResponse, a \in 0..MaxResponse,
            k1 \in RecordKinds, k2 \in RecordKinds, k3 \in RecordKinds}

\* A browser whose store holds a cart of one line item.
InitCatalog ==
    /\ storage = JSONstringify(<<[id |-> "3017", name |-> "Oat Bar",
                                  price |-> parseFloat(333),
                                  image |-> "a.jpg", quantity |-> 2]>>)
    /\ Blank

\* The request of the page settles with some response of the family.
Settle ==
    /\ fetchState = "pending"
    /\ \E resp \in CatalogResponses : FetchSettle(resp)

NextCatalog ==
    \/ \E p \in Pages : PageLoad(p, TRUE)
    \/ Settle

SpecCatalog == InitCatalog /\ [][NextCatalog]_vars

\* The contact page on its own: the fields are edited, the email a
\* character at a time, the form submitted, the timeouts fire.
TypeEmail ==
    \/ /\ Len(form.email) < MaxEmailLen
       /\ \E ch \in EmailChars : InputEvent("email", Append(form.email, ch))
    \/ /\ form.email # <<>>
       /\ InputEvent("email", SubSeq(form.email, 1, Len(form.email) - 1))
    \/ \E value \in PastedEmails : InputEvent("email", value)

NextForm ==
    \/ PageLoad("contact", TRUE)
    \/ \E field \in {"name", "message"}, value \in TextSamples :
            InputEvent(field, value)
    \/ TypeEmail
    \/ Submit
    \/ SuccessTimeout

SpecForm == Init /\ [][NextForm]_vars

\* Two documents on one store, each on the home page with the same two
\* cards, either one in front.
TwoCards ==
    ProductsResponse(<<Product("3017", [name |-> "Oat Bar", image |-> "a.jpg"]),
                       Product("5449", [name |-> "Rice Cake", image |-> "b.jpg"])>>)

NextTwo ==
    \/ PageLoad("home", TRUE)
    \/ FetchSettle(TwoCards)
    \/ \E k \in 1..Len(grid) :
            AddToCartClick(grid[k].id, grid[k].name, 333, grid[k].image)
    \/ Switch

SpecTwo == Init /\ [][NextTwo]_vars

\* The responses whose records are all of one kind.
UniformResponses ==
    FailedResponses
    \cup {ProductsResponse(ProductList(n, n, k, k, k)) :
            n \in 0..MaxResponse, k \in RecordKinds}

SettleUniform ==
    /\ fetchState = "pending"
    /\ \E resp \in UniformResponses : FetchSettle(resp)

NextSpinner ==
    \/ \E p \in Pages : PageLoad(p, TRUE)
    \/ SettleUniform

\* The catalogue pages with every request settling in the end: a pending
\* request is not left pending for ever.
SpecSpinner == InitCatalog /\ [][NextSpinner]_vars /\ WF_vars(SettleUniform)

----
\* Vocabulary of the properties.

IdsOf(c) == {c[i].id : i \in 1..Len(c)}

\* How many line items of c carry id.
Count(c, id) == Cardinality({i \in 1..Len(c) : c[i].id = id})

RECURSIVE QuantityOf(_, _)
\* The quantity of c held under id, over all its line items.
QuantityOf(c, id) ==
    IF c = <<>> THEN 0
    ELSE (IF Head(c).id = id THEN Head(c).quantity ELSE 0)
         + QuantityOf(Tail(c), id)

\* The line items of c other than those of id, in order.
Others(c, id) == SelectSeq(c, LAMBDA item : item.id # id)

\* The handler that ran last is a cart operation of the given name.
Ran(name) == lastOp.name = name

OnCartPage == page = "cart" /\ ~threw

----
\* C1: after any sequence of add, increment, decrement, remove and checkout
\* the in-memory cart holds at most one line item per id, and every line
\* item has quantity >= 1.
C1_UniqueIdsPositiveQuantity ==
    /\ \A i, j \in 1..Len(cart) : cart[i].id = cart[j].id => i = j
    /\ \A i \in 1..Len(cart) : cart[i].quantity >= 1

\* Two line items in the cart right after a decrement.
C1_Witness == Ran("decrease") /\ Len(cart) = 2

\* C2: add of an id not in the cart adds exactly one line item with that id
\* and quantity 1; add of an id in the cart raises its quantity by exactly 1
\* and keeps the number of line items.
C2_AddEffect ==
    [][lastOp'.name = "add" =>
        LET id == lastOp'.id IN
        IF id \in IdsOf(cart)
        THEN /\ Len(cart') = Len(cart)
             /\ Count(cart', id) = 1
             /\ QuantityOf(cart', id) = QuantityOf(cart, id) + 1
        ELSE /\ Len(cart') = Len(cart) + 1
             /\ Count(cart', id) = 1
             /\ QuantityOf(cart', id) = 1]_vars

\* MaxQty adds of one id: a single line item of quantity MaxQty.
C2_Witness ==
    /\ Ran("add")
    /\ Len(cart) = 1
    /\ cart[1].id = lastOp.id
    /\ cart[1].quantity = MaxQty

\* C3: decrement of a line item of quantity q > 1 keeps it with quantity
\* q - 1; decrement of a line item of quantity 1 removes it; no line item
\* of quantity 0 is ever seen.
C3_DecrementEffect ==
    [][(lastOp'.name = "decrease" /\ lastOp'.id \in IdsOf(cart)) =>
        LET id == lastOp'.id
            q == QuantityOf(cart, id)
        IN  /\ q > 1 => /\ id \in IdsOf(cart')
                        /\ QuantityOf(cart', id) = q - 1
                        /\ Len(cart') = Len(cart)
            /\ q = 1 => /\ id \notin IdsOf(cart')
                        /\ Len(cart') = Len(cart) - 1
            /\ \A i \in 1..Len(cart') : cart'[i].quantity # 0]_vars

\* A decrement at quantity 1 that removed its line item and left another.
C3_Witness == Ran("decrease") /\ lastOp.id \notin IdsOf(cart) /\ Len(cart) = 1

\* C4: activating the remove control of the line item with id X, wherever
\* in the control the click lands, leaves no line item with id X and every
\* other line item as it was.
C4_RemoveUnconditional ==
    [][lastOp'.name = "remove" =>
        /\ lastOp'.id \notin IdsOf(cart')
        /\ cart' = Others(cart, lastOp'.id)]_vars

----
\* The cents nearest to number x (x rounded to 2 decimals).
RoundedCents(x) ==
    CHOOSE k \in {x \div Resolution, (x \div Resolution) + 1} :
        /\ 2 * (k * Resolution - x) <= Resolution
        /\ 2 * (x - k * Resolution) <= Resolution

RECURSIVE SumRounded(_)
\* Sum over the line items of price x quantity, each rounded to cents.
SumRounded(c) ==
    IF c = <<>> THEN 0
    ELSE RoundedCents(Head(c).price * Head(c).quantity) + SumRounded(Tail(c))

RECURSIVE SumExact(_)
\* Sum over the line items of price x quantity, as a number.
SumExact(c) ==
    IF c = <<>> THEN 0
    ELSE Head(c).price * Head(c).quantity + SumExact(Tail(c))

\* C5: for every non-empty cart the displayed subtotal is the sum of the
\* per-item products each rounded to 2 decimals, and the displayed total is
\* that subtotal plus 5.00.
C5_Totals ==
    (OnCartPage /\ cart # <<>>) =>
        /\ cartTotalSubtotal = Text(SumRounded(cart))
        /\ cartTotal = Text(SumRounded(cart) + 500)

\* Items (10.00, qty 2) and (3.33, qty 3): subtotal 29.99, total 34.99.
C5_Witness ==
    /\ OnCartPage
    /\ Len(cart) = 2
    /\ cart[1].price = 1000 * Resolution /\ cart[1].quantity = 2
    /\ cart[2].price = 333 * Resolution /\ cart[2].quantity = 3
    /\ cartTotalSubtotal = Text(2999)
    /\ cartTotal = Text(3499)

\* C6 as stated: in every state of the cart page, the empty cart included,
\* the displayed total is the sum of unitPrice x quantity plus shipping and
\* the displayed subtotal is that sum.
C6_TotalsEveryState ==
    OnCartPage =>
        /\ cartTotalSubtotal # NoText /\ cartTotal # NoText
        /\ cartTotalSubtotal[1] * Resolution = SumExact(cart)
        /\ cartTotal[1] * Resolution = SumExact(cart) + SHIPPING_COST

\* C6 amended: the displayed subtotal is the sum in every state; the
\* displayed total is the sum plus shipping when the cart is non-empty and
\* 0.00 when it is empty.
C6_TotalsNonEmpty ==
    OnCartPage =>
        /\ cartTotalSubtotal # NoText /\ cartTotal # NoText
        /\ cartTotalSubtotal[1] * Resolution = SumExact(cart)
        /\ cart # <<>> =>
               cartTotal[1] * Resolution = SumExact(cart) + SHIPPING_COST
        /\ cart = <<>> => cartTotal[1] = 0

\* The cart page showing total 0.00 after the last line item was removed.
C6_Witness ==
    OnCartPage /\ Ran("remove") /\ cart = <<>> /\ cartTotal = Text(0)

\* C7: on the cart page, an empty cart shows subtotal 0.00, total 0.00, the
\* empty-cart message and a disabled checkout button; a non-empty cart hides
\* the message and enables the button.
C7_EmptyState ==
    OnCartPage =>
        /\ cart = <<>> => /\ cartTotalSubtotal = Text(0)
                          /\ cartTotal = Text(0)
                          /\ emptyCartMessage = "block"
        /\ cart # <<>> => emptyCartMessage = "none"
        /\ checkoutDisabled <=> cart = <<>>

\* The cart page emptied by a checkout.
C7_Witness ==
    /\ OnCartPage /\ Ran("checkout") /\ message.type = "success"
    /\ cart = <<>> /\ checkoutDisabled /\ emptyCartMessage = "block"

----
\* What a page load would hydrate from a stored value, read off the stored
\* text member by member.
Decoded(st) ==
    IF st.kind = "array"
    THEN [i \in 1..Len(st.items) |->
            [id |-> st.items[i][1], name |-> st.items[i][2],
             price |-> st.items[i][3], image |-> st.items[i][4],
             quantity |-> st.items[i][5]]]
    ELSE <<>>

\* C8: between handlers the stored value decodes to the in-memory cart, and
\* on the cart page the displayed rows are those of the in-memory cart.
C8_PersistedAndDisplayed ==
    (page # "none" /\ ~threw) =>
        /\ Decoded(storage) = cart
        /\ page = "cart" =>
            /\ Len(cartRows) = Len(cart)
            /\ \A i \in 1..Len(cart) :
                /\ cartRows[i].id = cart[i].id
                /\ cartRows[i].name = cart[i].name
                /\ cartRows[i].image = cart[i].image
                /\ cartRows[i].quantity = cart[i].quantity
                /\ cartRows[i].price * Resolution = cart[i].price

\* A cart-page mutation persisted and displayed.
C8_Witness ==
    /\ OnCartPage /\ Ran("increase")
    /\ Len(cart) = 2 /\ storage.kind = "array" /\ Len(storage.items) = 2

C10_LoadDefaultsToEmpty ==
    (Ran("load")
        /\ storage.kind \in {"absent", "unparseable", "falsy", "object"}) =>
        /\ ~threw
        /\ cart = <<>>

----
\* The ids of the line items of c, in cart order.
IdSeq(c) == [i \in 1..Len(c) |-> c[i].id]

\* Sequence s without the members outside set keep.
Restrict(s, keep) == SelectSeq(s, LAMBDA x : x \in keep)

RECURSIVE TotalQuantity(_, _)
\* The quantities of the first n line items of c, added up.
TotalQuantity(c, n) ==
    IF n = 0 THEN 0 ELSE c[n].quantity + TotalQuantity(c, n - 1)

\* C11: checkout on a non-empty cart empties the in-memory cart, stores the
\* empty cart and shows the empty state; the next page load hydrates an
\* empty cart.  Checkout on an empty cart changes neither the cart nor the
\* stored value.
C11_Checkout ==
    [][/\ lastOp'.name = "checkout" =>
            IF cart # <<>>
            THEN /\ cart' = <<>>
                 /\ storage'.kind = "array" /\ storage'.items = <<>>
                 /\ cartRows' = <<>>
                 /\ cartTotalSubtotal' = Text(0) /\ cartTotal' = Text(0)
                 /\ checkoutDisabled'
            ELSE cart' = cart /\ storage' = storage
        /\ (lastOp.name = "checkout" /\ lastOp'.name = "load") =>
            cart' = <<>> /\ ~threw']_vars

\* A successful checkout: the cart and the stored list are empty.
C11_Witness ==
    /\ Ran("checkout") /\ message.type = "success"
    /\ cart = <<>> /\ storage.kind = "array" /\ storage.items = <<>>
    /\ cartTotal = Text(0)

\* C15: increment raises the matching line item's quantity by exactly 1 and
\* leaves every other line item as it was; with no line item of that id,
\* increment and decrement change neither the cart, the stored value nor
\* the display.
C15_IncrementFrame ==
    [][lastOp'.name \in {"increase", "decrease"} =>
        LET id == lastOp'.id IN
        /\ (id \in IdsOf(cart) /\ lastOp'.name = "increase") =>
            /\ Len(cart') = Len(cart)
            /\ \A i \in 1..Len(cart) :
                IF cart[i].id = id
                THEN cart'[i] = [cart[i] EXCEPT !.quantity = @ + 1]
                ELSE cart'[i] = cart[i]
        /\ id \notin IdsOf(cart) =>
            /\ cart' = cart
            /\ storage' = storage
            /\ cartView' = cartView
            /\ cartCount' = cartCount]_vars

\* An increment run for an id that no line item carries, beside one that
\* another line item carries.
C15_Witness ==
    /\ Ran("increase") /\ lastOp.id \notin IdsOf(cart)
    /\ Len(cart) = 1 /\ cart[1].quantity = 2

C17_AddFrame ==
    [][(lastOp'.name = "add" /\ lastOp'.id \in IdsOf(cart)) =>
        /\ Len(cart') = Len(cart)
        /\ \A i \in 1..Len(cart) :
            IF cart[i].id = lastOp'.id
            THEN /\ cart'[i].name = cart[i].name
                 /\ cart'[i].price = cart[i].price
                 /\ cart'[i].image = cart[i].image
                 /\ cart'[i].id = cart[i].id
            ELSE cart'[i] = cart[i]]_vars

\* A second add of an id, from a card with another name, kept the name.
C17_Witness ==
    /\ Ran("add") /\ Len(cart) = 2
    /\ cart[2].id = lastOp.id /\ cart[2].quantity = 2
    /\ message.text # cart[2].name

\* C19: where the count element exists, the navbar count is the sum of the
\* quantities of the in-memory cart after page initialisation and after
\* every mutating operation.
C19_CartCount ==
    (page # "none" /\ ~threw /\ cartCountSpan) =>
        cartCount = Text(TotalQuantity(cart, Len(cart)))

\* The count after a decrement that left two line items.
C19_Witness ==
    /\ cartCountSpan /\ Ran("decrease") /\ Len(cart) = 2
    /\ cartCount = Text(3)

----
\* The positions of the records of products that have every listed text.
Qualifying(products, needBrand) ==
    {i \in 1..Len(products) :
        /\ products[i].product_name # ""
        /\ products[i].image_url # ""
        /\ needBrand => products[i].brands # ""}

\* The grid shows the first limit qualifying records, in response order.
ShowsFirst(products, needBrand, limit) ==
    LET Q == Qualifying(products, needBrand) IN
    /\ Len(grid) = IF Cardinality(Q) < limit THEN Cardinality(Q) ELSE limit
    /\ \A k \in 1..Len(grid) :
        \E i \in Q : /\ Cardinality({j \in Q : j < i}) = k - 1
                     /\ grid[k].id = products[i].code

\* C12: the featured listing shows exactly the first 4 records that have
\* name, image and brand, the general listing exactly the first 20 that
\* have name and image, in response order; other records are dropped.
C12_Listing ==
    (response.kind = "products" /\ ~threw) =>
        /\ page = "home" => ShowsFirst(response.products, TRUE, 4)
        /\ page = "products" => ShowsFirst(response.products, FALSE, 20)

\* A general listing of 22 records: the first one dropped for its missing
\* image, the next 20 shown, the last one cut.
C12_Witness ==
    /\ page = "products" /\ Len(response.products) = 22 /\ Len(grid) = 20
    /\ response.products[1].image_url = ""
    /\ grid[1].id = response.products[2].code
    /\ grid[20].id = response.products[21].code

\* C13: a page issues one request; a rejected fetch, a status not ok or a
\* body without a products list shows the failure message, a list with no
\* qualifying record the no-products message, any other list cards; the
\* outcome issues no further request and leaves cart and store alone.
C13_FetchOutcome ==
    /\ [](( page \in {"home", "products"} /\ ~threw) =>
            /\ requests = 1
            /\ fetchState # "pending" =>
                LET Q == Qualifying(response.products, page = "home") IN
                /\ response.kind # "products" =>
                        gridMessage = "failed" /\ grid = <<>>
                /\ (response.kind = "products" /\ Q = {}) =>
                        gridMessage = "none found" /\ grid = <<>>
                /\ (response.kind = "products" /\ Q # {}) =>
                        gridMessage = "" /\ grid # <<>>)
    /\ [][lastOp'.name = "fetch" =>
            /\ requests' = requests
            /\ cart' = cart /\ storage' = storage
            /\ threw' = threw]_vars

\* The no-products message for a list whose records all lack an image.
C13_Witness ==
    /\ page = "products" /\ gridMessage = "none found"
    /\ Len(response.products) = 3 /\ requests = 1 /\ cart # <<>>

\* C20: on the products page the spinner shows while the request is
\* pending, is hidden once an outcome is rendered, and every spinner shown
\* is hidden in the end (or the page left) when requests settle.
C20_Spinner ==
    /\ []((page = "products" /\ ~threw) =>
            /\ fetchState = "pending" => spinner = "flex"
            /\ fetchState # "pending" => spinner = "none")
    /\ [](spinner = "flex" => <>(spinner = "none" \/ page # "products"))

\* The spinner hidden beside the failure message.
C20_Witness ==
    page = "products" /\ gridMessage = "failed" /\ spinner = "none"

\* The field values validateForm read in a step: those before a submit
\* (which may reset them), those after an input event.
Validated == IF lastOp'.name = "submit" THEN form ELSE form'

NonBlank(s) == \E i \in 1..Len(s) : ~IsSpace(s[i])

\* The text after the first "@" of s.
Domain(s) ==
    LET at == CHOOSE i \in 1..Len(s) :
                /\ s[i] = "@"
                /\ \A j \in 1..(i - 1) : s[j] # "@"
    IN  SubSeq(s, at + 1, Len(s))

\* s reads local@domain: one "@", no white space, something before the "@".
LocalAtDomain(s) ==
    /\ Cardinality({i \in 1..Len(s) : s[i] = "@"}) = 1
    /\ \A i \in 1..Len(s) : ~IsSpace(s[i])
    /\ s[1] # "@"

\* The domain holds a "." somewhere.
DotInDomain(s) ==
    LocalAtDomain(s) /\ \E i \in 1..Len(Domain(s)) : Domain(s)[i] = "."

\* The domain holds a "." with a character before it and one after it.
DotInsideDomain(s) ==
    LocalAtDomain(s) /\ \E i \in 2..(Len(Domain(s)) - 1) : Domain(s)[i] = "."

\* What a validating step shows when emails are accepted as EmailOk says.
FormContract(EmailOk(_)) ==
    LET v == Validated
        nameOk == NonBlank(v.name)
        emailOk == NonBlank(v.email) /\ EmailOk(trim(v.email))
        messageOk == NonBlank(v.message)
        passes == nameOk /\ emailOk /\ messageOk
    IN  /\ form'.isValid <=> passes
        /\ (form'.nameError = "") <=> nameOk
        /\ (form'.emailError = "") <=> emailOk
        /\ (form'.messageError = "") <=> messageOk
        /\ lastOp'.name = "submit" =>
              IF passes
              THEN /\ form'.success = "block"
                   /\ form'.name = <<>> /\ form'.email = <<>>
                   /\ form'.message = <<>>
              ELSE /\ form'.success = form.success
                   /\ form'.name = form.name /\ form'.email = form.email
                   /\ form'.message = form.message

\* C14 as stated: validateForm passes iff name, email and message are
\* non-blank and the trimmed email reads local@domain with a "." in the
\* domain; a failing field gets an error text, a passing one none; a
\* submission shows success and resets the form iff validation passes.
\* Refuted by the email a@a. which the pattern rejects.
C14_DotAnywhere ==
    [][lastOp'.name \in {"input", "submit"} => FormContract(DotInDomain)]_vars

\* C14 amended: as above, with the "." of the domain having at least one
\* character before it and one after it.
C14_Validation ==
    [][lastOp'.name \in {"input", "submit"} => FormContract(DotInsideDomain)]_vars

\* A passing submission: the success box shown, the form reset.
C14_Witness ==
    /\ lastOp.name = "submit" /\ form.isValid /\ form.success = "block"
    /\ form.email = <<>> /\ form.emailError = ""

\* C18: with two documents on the store, what is stored after a handler
\* of either one is what was stored before it with that handler's change:
\* an add raises the stored quantity of its product by one and leaves the
\* other stored products as they were.  Refuted: a save writes the
\* document's own cart, which lacks what the other one stored since.
C18_NoLostUpdate ==
    [][lastOp'.name = "add" =>
        LET id == lastOp'.id
            before == Decoded(storage)
            after == Decoded(storage')
        IN  /\ QuantityOf(after, id) = QuantityOf(before, id) + 1
            /\ \A o \in Ids \ {id} :
                    QuantityOf(after, o) = QuantityOf(before, o)]_vars

====
